---- MODULE Spec2Model ----
(***************************************************************************)
(* Mass properties of bevy_xpbd (src/components/mass_properties.rs):       *)
(* Mass, InverseMass, Inertia, InverseInertia, CenterOfMass, the           *)
(* MassPropertiesBundle and the ColliderMassProperties snapshot, in the    *)
(* planar ("2d") and the spatial ("3d") build.                             *)
(*                                                                         *)
(* Scalar is an IEEE-754 binary floating-point number (f32, or f64 with    *)
(* the f64 feature).  The model keeps the IEEE rules (signed zero,         *)
(* subnormals, +-infinity, NaN, round-to-nearest-even, overflow to         *)
(* infinity) on a format of MantBits significand bits and largest          *)
(* exponent Emax, so that every value of the format can be enumerated.     *)
(***************************************************************************)
EXTENDS Integers, Sequences, FiniteSets, TLC

VARIABLES feature, op, arg, ret, snapshot

vars == <<feature, op, arg, ret, snapshot>>

----------------------------------------------------------------------------
(* Scalar: the floating-point format.                                      *)

\* Significand bits (precision) of the modelled binary format.
MantBits == 3
\* Largest exponent of the format; the smallest normal exponent is 1 - Emax.
Emax == 2

Emin == 1 - Emax

RECURSIVE Pow2(_)
Pow2(k) == IF k <= 0 THEN 1 ELSE 2 * Pow2(k - 1)

\* A finite Scalar is s * n * 2^(Emin - MantBits + 1): n counts units of the
\* smallest subnormal.  Unit is the number of such units in 1.0.
Unit == Pow2(MantBits - 1 - Emin)
\* The largest finite value, in units.
MaxN == (Pow2(MantBits) - 1) * Pow2(Emax - Emin)

Fin(s, n) == [k |-> "fin", s |-> s, n |-> n]
Inf(s)    == [k |-> "inf", s |-> s, n |-> 0]
NaN       == [k |-> "nan", s |-> 0, n |-> 0]
INFINITY  == Inf(0)

\* The number of times n can be halved before it fits in MantBits bits.
RECURSIVE Shift(_, _)
Shift(num, den) ==
    IF num \div den < Pow2(MantBits) THEN 0 ELSE 1 + Shift(num, 2 * den)

\* Round-to-nearest, ties-to-even, of the non-negative rational num/den
\* (in units) with sign s; overflows to infinity.
\* num/den is q quanta of 2^j units and a remainder of r/d of a quantum.
RoundUp(q, r, d) == (2 * r > d) \/ (2 * r = d /\ q % 2 = 1)
Pack(s, n) == IF n > MaxN THEN Inf(s) ELSE Fin(s, n)
RoundQuot(s, q, r, d, j) ==
    Pack(s, (IF RoundUp(q, r, d) THEN q + 1 ELSE q) * Pow2(j))
RoundAt(s, num, d, j) == RoundQuot(s, num \div d, num % d, d, j)
RoundShift(s, num, den, j) == RoundAt(s, num, den * Pow2(j), j)
RoundRat(s, num, den) == RoundShift(s, num, den, Shift(num, den))

\* Every value of the format.
Magnitudes == {n \in 0..MaxN : RoundRat(0, n, 1) = Fin(0, n)}
Finite  == {Fin(s, n) : s \in {0, 1}, n \in Magnitudes}
Scalars == Finite \cup {Inf(0), Inf(1), NaN}

\* The Scalar of an integer literal (3.0 is F(3)); exact when representable.
F(i) == IF i >= 0 THEN RoundRat(0, i * Unit, 1) ELSE RoundRat(1, (-i) * Unit, 1)

Xor(a, b) == IF a = b THEN 0 ELSE 1
IsZero(a) == a.k = "fin" /\ a.n = 0
\* The signed number of units of a finite Scalar.
Units(a) == IF a.s = 1 THEN -a.n ELSE a.n

\* f32::is_finite / f64::is_finite
is_finite(a) == a.k = "fin"

\* a > b, false when either is NaN.
Gt(a, b) ==
    /\ a.k # "nan" /\ b.k # "nan"
    /\ CASE a.k = "inf" /\ b.k = "inf" -> a.s = 0 /\ b.s = 1
         [] a.k = "inf" -> a.s = 0
         [] b.k = "inf" -> b.s = 1
         [] OTHER -> Units(a) > Units(b)

Neg(a) == IF a.k = "nan" THEN NaN ELSE [a EXCEPT !.s = 1 - a.s]

\* a * b
Mul(a, b) ==
    CASE a.k = "nan" \/ b.k = "nan" -> NaN
      [] (a.k = "inf" /\ IsZero(b)) \/ (IsZero(a) /\ b.k = "inf") -> NaN
      [] a.k = "inf" \/ b.k = "inf" -> Inf(Xor(a.s, b.s))
      [] OTHER -> RoundRat(Xor(a.s, b.s), a.n * b.n, Unit)

\* a / b
Div(a, b) ==
    CASE a.k = "nan" \/ b.k = "nan" -> NaN
      [] a.k = "inf" /\ b.k = "inf" -> NaN
      [] IsZero(a) /\ IsZero(b) -> NaN
      [] a.k = "inf" -> Inf(Xor(a.s, b.s))
      [] b.k = "inf" -> Fin(Xor(a.s, b.s), 0)
      [] IsZero(b) -> Inf(Xor(a.s, b.s))
      [] OTHER -> RoundRat(Xor(a.s, b.s), a.n * Unit, b.n)

\* a + b
Add(a, b) ==
    CASE a.k = "nan" \/ b.k = "nan" -> NaN
      [] a.k = "inf" /\ b.k = "inf" -> IF a.s = b.s THEN a ELSE NaN
      [] a.k = "inf" -> a
      [] b.k = "inf" -> b
      [] OTHER ->
           LET u == Units(a) + Units(b)
           IN  IF u > 0 THEN RoundRat(0, u, 1)
               ELSE IF u < 0 THEN RoundRat(1, -u, 1)
               ELSE Fin(IF a.s = 1 /\ b.s = 1 THEN 1 ELSE 0, 0)

\* a - b
Sub(a, b) == Add(a, Neg(b))

\* sqrt(a), correctly rounded: the square root of n/Unit is sqrt(n * Unit)
\* units; lo is the largest value of the format not above it, hi the next.
SqrtFloor(sq) ==
    CHOOSE x \in Magnitudes :
        /\ x * x <= sq
        /\ \A y \in Magnitudes : y * y <= sq => y <= x
Successor(lo) ==
    IF lo = MaxN THEN lo
    ELSE CHOOSE y \in Magnitudes :
            y > lo /\ \A z \in Magnitudes : z > lo => y <= z
SqrtBetween(sq, lo, hi) ==
    IF 4 * sq > (lo + hi) * (lo + hi) THEN Fin(0, hi) ELSE Fin(0, lo)
SqrtFrom(sq, lo) == SqrtBetween(sq, lo, Successor(lo))
SqrtUnits(sq) == SqrtFrom(sq, SqrtFloor(sq))
Sqrt(a) ==
    CASE a.k = "nan" -> NaN
      [] IsZero(a) -> a
      [] a.s = 1 -> NaN
      [] a.k = "inf" -> a
      [] OTHER -> SqrtUnits(a.n * Unit)

----------------------------------------------------------------------------
(* Vector and Matrix3 (glam), NaMatrix3 (nalgebra).                        *)

\* glam Vec2 / Vec3: a tuple of components.
\* glam Mat3: its three columns <<x_axis, y_axis, z_axis>>, each a Vec3.
\* nalgebra Matrix3: indexed m[row][col].
Vector_ZERO_2d == <<F(0), F(0)>>
Vector_ZERO_3d == <<F(0), F(0), F(0)>>
Matrix3_ZERO == <<Vector_ZERO_3d, Vector_ZERO_3d, Vector_ZERO_3d>>
Matrix3_IDENTITY ==
    << <<F(1), F(0), F(0)>>, <<F(0), F(1), F(0)>>, <<F(0), F(0), F(1)>> >>

\* glam Vec2::length_squared: dot(self, self) = x * x + y * y
length_squared(v) == Add(Mul(v[1], v[1]), Mul(v[2], v[2]))

\* glam Vec3::dot: x * x' + y * y' + z * z'
dot3(a, b) == Add(Add(Mul(a[1], b[1]), Mul(a[2], b[2])), Mul(a[3], b[3]))

\* glam Vec3::cross
cross(a, b) ==
    << Sub(Mul(a[2], b[3]), Mul(b[2], a[3])),
       Sub(Mul(a[3], b[1]), Mul(b[3], a[1])),
       Sub(Mul(a[1], b[2]), Mul(b[1], a[2])) >>

\* glam Mat3::transpose
transpose(m) == [c \in 1..3 |-> [r \in 1..3 |-> m[r][c]]]

\* glam Mat3::inverse: the cofactor columns scaled by the reciprocal of the
\* determinant, transposed.  It does not test the determinant (glam_assert
\* is compiled out by default), so a singular matrix goes through 1/0.
Matrix3_inverse(m) ==
    LET tmp0 == cross(m[2], m[3])
        tmp1 == cross(m[3], m[1])
        tmp2 == cross(m[1], m[2])
        det  == dot3(m[3], tmp2)
        inv_det == Div(F(1), det)
        scale(v) == [i \in 1..3 |-> Mul(v[i], inv_det)]
    IN  transpose(<<scale(tmp0), scale(tmp1), scale(tmp2)>>)

\* NaMatrix3::from(glam matrix) and math::Matrix3::from(nalgebra matrix):
\* column c, row r of the one is entry (r, c) of the other.
NaMatrix3_from(m) == [r \in 1..3 |-> [c \in 1..3 |-> m[c][r]]]
Matrix3_from(n)   == [c \in 1..3 |-> [r \in 1..3 |-> n[r][c]]]

\* nalgebra: norm_squared, from_diagonal_element, v * v.transpose(),
\* matrix + matrix, matrix * scalar.
norm_squared(v) == Add(Add(Mul(v[1], v[1]), Mul(v[2], v[2])), Mul(v[3], v[3]))
from_diagonal_element(d) ==
    [r \in 1..3 |-> [c \in 1..3 |-> IF r = c THEN d ELSE F(0)]]
outer(v) == [r \in 1..3 |-> [c \in 1..3 |-> Mul(v[r], v[c])]]
NaAdd(a, b) == [r \in 1..3 |-> [c \in 1..3 |-> Add(a[r][c], b[r][c])]]
NaSub(a, b) == [r \in 1..3 |-> [c \in 1..3 |-> Sub(a[r][c], b[r][c])]]
NaScale(a, k) == [r \in 1..3 |-> [c \in 1..3 |-> Mul(a[r][c], k)]]

----------------------------------------------------------------------------
(* The value types.                                                        *)

Mass(v)           == [type |-> "Mass", val |-> v]
InverseMass(v)    == [type |-> "InverseMass", val |-> v]
Inertia(v)        == [type |-> "Inertia", val |-> v]
InverseInertia(v) == [type |-> "InverseInertia", val |-> v]
CenterOfMass(v)   == [type |-> "CenterOfMass", val |-> v]

Mass_ZERO        == Mass(F(0))
InverseMass_ZERO == InverseMass(F(0))
Inertia_ZERO_2d  == Inertia(F(0))
Inertia_ZERO_3d  == Inertia(Matrix3_ZERO)
Inertia_ZERO     == IF feature = "2d" THEN Inertia_ZERO_2d ELSE Inertia_ZERO_3d
InverseInertia_ZERO_2d == InverseInertia(F(0))
InverseInertia_ZERO_3d == InverseInertia(Matrix3_ZERO)
InverseInertia_ZERO ==
    IF feature = "2d" THEN InverseInertia_ZERO_2d ELSE InverseInertia_ZERO_3d
CenterOfMass_ZERO ==
    CenterOfMass(IF feature = "2d" THEN Vector_ZERO_2d ELSE Vector_ZERO_3d)

\* Inertia::inverse with a guard at zero, which the source does not have.
Inertia_inverse_2d_guarded(self) ==
    IF IsZero(self.val) THEN InverseInertia(F(0))
    ELSE InverseInertia(Div(F(1), self.val))

\* Inertia::inverse
Inertia_inverse_2d(self) == InverseInertia(Div(F(1), self.val))
Inertia_inverse_3d(self) == InverseInertia(Matrix3_inverse(self.val))
Inertia_inverse(self) ==
    IF feature = "2d" THEN Inertia_inverse_2d(self) ELSE Inertia_inverse_3d(self)

\* Inertia::shifted without the is_finite test of the mass.
Inertia_shifted_2d_unchecked(self, mass, offset) ==
    IF Gt(mass, F(0))
    THEN Add(self.val, Mul(length_squared(offset), mass))
    ELSE self.val

\* Inertia::shifted with the mass factor left out.
Inertia_shifted_2d_massless(self, mass, offset) ==
    IF Gt(mass, F(0)) /\ is_finite(mass)
    THEN Add(self.val, length_squared(offset))
    ELSE self.val

\* Inertia::shifted
Inertia_shifted_2d(self, mass, offset) ==
    IF Gt(mass, F(0)) /\ is_finite(mass)
    THEN Add(self.val, Mul(length_squared(offset), mass))
    ELSE self.val

Inertia_shifted_3d(self, mass, offset) ==
    IF Gt(mass, F(0)) /\ is_finite(mass)
    THEN LET matrix       == NaMatrix3_from(self.val)
             diagonal_el  == norm_squared(offset)
             diagonal_mat == from_diagonal_element(diagonal_el)
         IN  Matrix3_from(
                 NaAdd(matrix, NaScale(NaAdd(diagonal_mat, outer(offset)), mass)))
    ELSE self.val

Inertia_shifted(self, mass, offset) ==
    IF feature = "2d" THEN Inertia_shifted_2d(self, mass, offset)
    ELSE Inertia_shifted_3d(self, mass, offset)

\* InverseInertia::inverse that rewraps the value without inverting it.
InverseInertia_inverse_2d_rewrap(self) == Inertia(self.val)

\* InverseInertia::inverse
InverseInertia_inverse_2d(self) == Inertia(Div(F(1), self.val))
InverseInertia_inverse_3d(self) == Inertia(Matrix3_inverse(self.val))
InverseInertia_inverse(self) ==
    IF feature = "2d" THEN InverseInertia_inverse_2d(self)
    ELSE InverseInertia_inverse_3d(self)

\* A conversion that rewraps the value without inverting it.
InverseInertia_from_rewrap(inertia) == InverseInertia(inertia.val)

\* impl From<Inertia> for InverseInertia
InverseInertia_from(inertia) == Inertia_inverse(inertia)

----------------------------------------------------------------------------
(* The geometry engine (parry) as ColliderMassProperties::new uses it: a   *)
(* shape is given by its volume (area), its angular inertia per unit mass  *)
(* about its principal axes (taken to be the coordinate axes) and its      *)
(* centroid.  MassProperties stores inv_mass and inv_principal_inertia_sqrt *)
(* and derives the rest; its reciprocal, utils::inv, maps 0 to 0.          *)

inv(x) == IF IsZero(x) THEN F(0) ELSE Div(F(1), x)

MassProperties_new(local_com, mass, principal_inertia) ==
    [ local_com |-> local_com,
      inv_mass  |-> inv(mass),
      inv_principal_inertia_sqrt |->
          IF feature = "2d" THEN inv(Sqrt(principal_inertia))
          ELSE [i \in 1..3 |-> inv(Sqrt(principal_inertia[i]))] ]

\* Shape::mass_properties(density)
Shape_with_mass(shape, mass) ==
    MassProperties_new(
        shape.com, mass,
        IF feature = "2d" THEN Mul(shape.unit_inertia, mass)
        ELSE [i \in 1..3 |-> Mul(shape.unit_inertia[i], mass)])
Shape_mass_properties(shape, density) ==
    Shape_with_mass(shape, Mul(shape.volume, density))

\* MassProperties::mass
props_mass(props) == inv(props.inv_mass)

\* MassProperties::principal_inertia (planar)
principal_inertia(props) ==
    inv(Mul(props.inv_principal_inertia_sqrt, props.inv_principal_inertia_sqrt))

NaDiagonal(d) == [r \in 1..3 |-> [c \in 1..3 |-> IF r = c THEN d[r] ELSE F(0)]]

\* MassProperties::reconstruct_inertia_matrix (spatial)
reconstruct_inertia_matrix(props) ==
    NaDiagonal([i \in 1..3 |->
        inv(Mul(props.inv_principal_inertia_sqrt[i],
                props.inv_principal_inertia_sqrt[i]))])

\* MassProperties::reconstruct_inverse_inertia_matrix (spatial)
reconstruct_inverse_inertia_matrix(props) ==
    NaDiagonal([i \in 1..3 |->
        Mul(props.inv_principal_inertia_sqrt[i],
            props.inv_principal_inertia_sqrt[i])])

\* The engine's own inverse angular inertia, in the form of the build.
engine_inverse_inertia(props) ==
    IF feature = "2d"
    THEN Mul(props.inv_principal_inertia_sqrt, props.inv_principal_inertia_sqrt)
    ELSE Matrix3_from(reconstruct_inverse_inertia_matrix(props))

\* Collider::shape_scaled
shape_scaled(collider) == collider.shape

----------------------------------------------------------------------------
(* ColliderMassProperties and MassPropertiesBundle.                        *)

ColliderMassProperties_ZERO ==
    [ mass            |-> Mass_ZERO,
      inverse_mass    |-> InverseMass(INFINITY),
      inertia         |-> Inertia_ZERO,
      inverse_inertia |-> InverseInertia_ZERO,
      center_of_mass  |-> CenterOfMass_ZERO ]

\* The Self { .. } that new builds from the engine's props.
ColliderMassProperties_of(props) ==
    [ mass         |-> Mass(props_mass(props)),
      inverse_mass |-> InverseMass(props.inv_mass),
      inertia |->
          IF feature = "2d" THEN Inertia(principal_inertia(props))
          ELSE Inertia(Matrix3_from(reconstruct_inertia_matrix(props))),
      inverse_inertia |->
          IF feature = "2d"
          THEN InverseInertia(Div(F(1), principal_inertia(props)))
          ELSE InverseInertia(
                   Matrix3_from(reconstruct_inverse_inertia_matrix(props))),
      center_of_mass |-> CenterOfMass(props.local_com) ]

ColliderMassProperties_new(collider, density) ==
    ColliderMassProperties_of(
        Shape_mass_properties(shape_scaled(collider), density))

ColliderMassProperties_default == ColliderMassProperties_ZERO

\* Collider::mass_properties(density)
Collider_mass_properties(collider, density) ==
    ColliderMassProperties_new(collider, density)

\* new_computed with the inertia and the inverse inertia exchanged.
MassPropertiesBundle_swapped(cmp) ==
    [ mass            |-> cmp.mass,
      inverse_mass    |-> cmp.inverse_mass,
      inertia         |-> cmp.inverse_inertia,
      inverse_inertia |-> cmp.inertia,
      center_of_mass  |-> cmp.center_of_mass ]
MassPropertiesBundle_new_computed_swapped(collider, density) ==
    MassPropertiesBundle_swapped(Collider_mass_properties(collider, density))

\* The Self { .. } that new_computed builds from the destructured snapshot.
MassPropertiesBundle_of(cmp) ==
    [ mass            |-> cmp.mass,
      inverse_mass    |-> cmp.inverse_mass,
      inertia         |-> cmp.inertia,
      inverse_inertia |-> cmp.inverse_inertia,
      center_of_mass  |-> cmp.center_of_mass ]

MassPropertiesBundle_new_computed(collider, density) ==
    MassPropertiesBundle_of(Collider_mass_properties(collider, density))

\* The accessors of ColliderMassProperties.
ColliderMassProperties_mass(self)            == self.mass.val
ColliderMassProperties_inverse_mass(self)    == self.inverse_mass.val
ColliderMassProperties_inertia(self)         == self.inertia.val
ColliderMassProperties_inverse_inertia(self) == self.inverse_inertia.val
ColliderMassProperties_center_of_mass(self)  == self.center_of_mass.val

----------------------------------------------------------------------------
(* Inputs.                                                                 *)

\* The smallest positive (subnormal) Scalar and one half.
Tiny == Fin(0, 1)
Half == Fin(0, Unit \div 2)

OffsetComponents == {F(0), F(1), F(-1), F(2), Tiny}
Offsets ==
    IF feature = "2d"
    THEN {<<x, y>> : x, y \in OffsetComponents \cup {NaN}}
    ELSE {<<x, y, z>> : x, y, z \in OffsetComponents \ {Tiny}}

Matrices ==
    { Matrix3_ZERO,
      Matrix3_IDENTITY,
      << <<F(1), F(2), F(0)>>, <<F(0), F(1), F(0)>>, <<F(-1), F(0), F(2)>> >>,
      << <<F(2), F(0), F(0)>>, <<F(0), INFINITY, F(0)>>, <<F(0), F(0), NaN>> >> }

\* The receivers of the inertia operations.
InertiaValues == IF feature = "2d" THEN Scalars ELSE Matrices
ShiftedValues ==
    IF feature = "2d"
    THEN {F(0), Neg(F(0)), F(1), F(2), F(-1), Tiny, INFINITY, NaN}
    ELSE Matrices
Masses ==
    IF feature = "2d" THEN Scalars
    ELSE {F(0), Neg(F(0)), F(1), F(2), F(-1), Tiny, Half, INFINITY, Inf(1), NaN}

ColliderDensity_ZERO == F(0)
Densities == {ColliderDensity_ZERO, Half, F(1), F(2), F(4)}
Shapes ==
    IF feature = "2d"
    THEN { [volume |-> F(1), unit_inertia |-> F(1), com |-> Vector_ZERO_2d],
           [volume |-> F(2), unit_inertia |-> Half, com |-> <<F(1), F(0)>>],
           [volume |-> Half, unit_inertia |-> F(2), com |-> <<F(-1), F(1)>>] }
    ELSE { [volume |-> F(1), unit_inertia |-> <<F(1), F(1), F(1)>>,
            com |-> Vector_ZERO_3d],
           [volume |-> F(2), unit_inertia |-> <<Half, F(1), F(2)>>,
            com |-> <<F(1), F(0), F(0)>>],
           [volume |-> Half, unit_inertia |-> <<F(2), F(2), Half>>,
            com |-> <<F(-1), F(1), F(2)>>] }
Colliders == {[shape |-> sh] : sh \in Shapes}

----------------------------------------------------------------------------
(* The collider component: one ColliderMassProperties value, created by    *)
(* default, replaced by new, read by the accessors.                        *)

Init ==
    /\ feature \in {"2d", "3d"}
    /\ op = "init"
    /\ arg = <<>>
    /\ ret = <<>>
    /\ snapshot = ColliderMassProperties_default

Default ==
    /\ op' = "ColliderMassProperties::default"
    /\ arg' = <<>>
    /\ ret' = ColliderMassProperties_default
    /\ snapshot' = ret'
    /\ UNCHANGED feature

New ==
    \E collider \in Colliders, density \in Densities :
        /\ op' = "ColliderMassProperties::new"
        /\ arg' = [collider |-> collider, density |-> density]
        /\ ret' = ColliderMassProperties_new(collider, density)
        /\ snapshot' = ret'
        /\ UNCHANGED feature

NewComputed ==
    \E collider \in Colliders, density \in Densities :
        /\ op' = "MassPropertiesBundle::new_computed"
        /\ arg' = [collider |-> collider, density |-> density]
        /\ ret' = MassPropertiesBundle_new_computed(collider, density)
        /\ UNCHANGED <<feature, snapshot>>

\* An accessor that hands out the field for writing: the caller stores a mass.
GetMass_writable ==
    /\ op' = "ColliderMassProperties::mass"
    /\ arg' = [self |-> snapshot]
    /\ ret' = ColliderMassProperties_mass(snapshot)
    /\ snapshot' = [snapshot EXCEPT !.mass = Mass(F(1))]
    /\ UNCHANGED feature

GetMass ==
    /\ op' = "ColliderMassProperties::mass"
    /\ arg' = [self |-> snapshot]
    /\ ret' = ColliderMassProperties_mass(snapshot)
    /\ UNCHANGED <<feature, snapshot>>

GetInverseMass ==
    /\ op' = "ColliderMassProperties::inverse_mass"
    /\ arg' = [self |-> snapshot]
    /\ ret' = ColliderMassProperties_inverse_mass(snapshot)
    /\ UNCHANGED <<feature, snapshot>>

GetInertia ==
    /\ op' = "ColliderMassProperties::inertia"
    /\ arg' = [self |-> snapshot]
    /\ ret' = ColliderMassProperties_inertia(snapshot)
    /\ UNCHANGED <<feature, snapshot>>

GetInverseInertia ==
    /\ op' = "ColliderMassProperties::inverse_inertia"
    /\ arg' = [self |-> snapshot]
    /\ ret' = ColliderMassProperties_inverse_inertia(snapshot)
    /\ UNCHANGED <<feature, snapshot>>

GetCenterOfMass ==
    /\ op' = "ColliderMassProperties::center_of_mass"
    /\ arg' = [self |-> snapshot]
    /\ ret' = ColliderMassProperties_center_of_mass(snapshot)
    /\ UNCHANGED <<feature, snapshot>>

Next ==
    \/ Default
    \/ New
    \/ NewComputed
    \/ GetMass
    \/ GetInverseMass
    \/ GetInertia
    \/ GetInverseInertia
    \/ GetCenterOfMass

Spec == Init /\ [][Next]_vars

----------------------------------------------------------------------------
(* The inertia algebra: pure functions.  A behaviour starts with one call  *)
(* drawn from the inputs and pending; the action of the called function    *)
(* returns its result.                                                     *)

Calls ==
    {[fn |-> "Inertia::inverse", self |-> Inertia(v)] : v \in InertiaValues}
    \cup
    {[fn |-> "InverseInertia::inverse", self |-> InverseInertia(v)] :
        v \in InertiaValues}
    \cup
    {[fn |-> "Inertia::shifted", self |-> Inertia(v), mass |-> m, offset |-> o] :
        v \in ShiftedValues, m \in Masses, o \in Offsets}
    \cup
    {[fn |-> "InverseInertia::from", inertia |-> Inertia(v)] : v \in InertiaValues}

InitInertia ==
    /\ feature \in {"2d", "3d"}
    /\ op = "call"
    /\ arg \in Calls
    /\ ret = <<>>
    /\ snapshot = ColliderMassProperties_default

InertiaInverse ==
    /\ op = "call" /\ arg.fn = "Inertia::inverse"
    /\ op' = "Inertia::inverse"
    /\ ret' = Inertia_inverse(arg.self)
    /\ UNCHANGED <<feature, arg, snapshot>>

InverseInertiaInverse ==
    /\ op = "call" /\ arg.fn = "InverseInertia::inverse"
    /\ op' = "InverseInertia::inverse"
    /\ ret' = InverseInertia_inverse(arg.self)
    /\ UNCHANGED <<feature, arg, snapshot>>

\* inertia.inverse().inverse(): InverseInertia::inverse applied to the value
\* Inertia::inverse has just returned for arg.self.
InverseOfInverse ==
    /\ op = "Inertia::inverse"
    /\ op' = "Inertia::inverse().inverse"
    /\ arg' = [fn |-> "InverseInertia::inverse", self |-> ret, of |-> arg.self]
    /\ ret' = InverseInertia_inverse(ret)
    /\ UNCHANGED <<feature, snapshot>>

Shifted ==
    /\ op = "call" /\ arg.fn = "Inertia::shifted"
    /\ op' = "Inertia::shifted"
    /\ ret' = Inertia_shifted(arg.self, arg.mass, arg.offset)
    /\ UNCHANGED <<feature, arg, snapshot>>

From ==
    /\ op = "call" /\ arg.fn = "InverseInertia::from"
    /\ op' = "InverseInertia::from"
    /\ ret' = InverseInertia_from(arg.inertia)
    /\ UNCHANGED <<feature, arg, snapshot>>

NextInertia ==
    \/ InertiaInverse
    \/ InverseInertiaInverse
    \/ InverseOfInverse
    \/ Shifted
    \/ From

SpecInertia == InitInertia /\ [][NextInertia]_vars

----------------------------------------------------------------------------
(* Properties of the inertia algebra (SpecInertia).                        *)

Matrix3_NAN == [c \in 1..3 |-> [r \in 1..3 |-> NaN]]

\* C1, as stated: inverting the zero value yields the other type's zero
\* value, Inertia::ZERO.inverse() = InverseInertia::ZERO and
\* InverseInertia::ZERO.inverse() = Inertia::ZERO, in both builds.
C1_ZeroInverseIsZero ==
    /\ (op = "Inertia::inverse" /\ arg.self = Inertia_ZERO)
          => ret = InverseInertia_ZERO
    /\ (op = "InverseInertia::inverse" /\ arg.self = InverseInertia_ZERO)
          => ret = Inertia_ZERO

\* C1, amended: inverse() has no guard at ZERO.  In the planar build the zero
\* value inverts to +infinity (1.0 / 0.0); in the spatial build the zero
\* matrix goes through the raw matrix inverse and every entry of the result
\* is NaN.  Neither is the other type's ZERO.
C1_ZeroInverseIsUnguarded ==
    /\ (op = "Inertia::inverse" /\ arg.self = Inertia_ZERO)
          => /\ ret = InverseInertia(IF feature = "2d" THEN INFINITY
                                     ELSE Matrix3_NAN)
             /\ ret # InverseInertia_ZERO
    /\ (op = "InverseInertia::inverse" /\ arg.self = InverseInertia_ZERO)
          => /\ ret = Inertia(IF feature = "2d" THEN INFINITY ELSE Matrix3_NAN)
             /\ ret # Inertia_ZERO

C1_Witness ==
    /\ feature = "3d"
    /\ op = "InverseInertia::inverse"
    /\ arg.self = InverseInertia_ZERO
    /\ ret.val[1][1] = NaN

\* m <= 0, or m is infinite or NaN.
NonPositiveOrNonFinite(m) ==
    \/ m.k = "nan"
    \/ m.k = "inf"
    \/ m.k = "fin" /\ Units(m) <= 0

\* C2: for a mass that is non-positive or non-finite, shifted returns the
\* value of the inertia unchanged, whatever the offset, in both builds.
C2_ShiftedGuard ==
    (op = "Inertia::shifted" /\ NonPositiveOrNonFinite(arg.mass))
        => ret = arg.self.val

C2_Witness ==
    /\ op = "Inertia::shifted"
    /\ feature = "3d"
    /\ arg.mass = INFINITY
    /\ arg.offset = <<F(1), F(2), F(0)>>
    /\ arg.self.val = Matrix3_IDENTITY
    /\ ret = Matrix3_IDENTITY

\* C4, as stated: for a finite mass m > 0 the spatial shifted returns
\* I + m * ((o . o) * Identity - o (x) o): the outer product is subtracted.
C4_SpatialParallelAxis ==
    (/\ feature = "3d"
     /\ op = "Inertia::shifted"
     /\ Gt(arg.mass, F(0)) /\ is_finite(arg.mass))
        => ret = Matrix3_from(
                     NaAdd(NaMatrix3_from(arg.self.val),
                           NaScale(NaSub(from_diagonal_element(
                                             dot3(arg.offset, arg.offset)),
                                         outer(arg.offset)),
                                   arg.mass)))

\* The integer a Scalar holds, when it holds one.
IsInt(a) == a.k = "fin" /\ a.n % Unit = 0
IntOf(a) == Units(a) \div Unit

\* C5: for a finite mass m > 0 the planar shifted returns I + m * |o|^2;
\* from Inertia(0) it returns m * |o|^2.  Where I >= 0, m and the offset
\* are whole numbers and I + m * (x^2 + y^2) is a whole number the format
\* holds exactly, the result is that number.
C5_PlanarParallelAxis ==
    (/\ feature = "2d"
     /\ op = "Inertia::shifted"
     /\ Gt(arg.mass, F(0)) /\ is_finite(arg.mass))
        => LET I  == arg.self.val
               m  == arg.mass
               ox == arg.offset[1]
               oy == arg.offset[2]
               exact == IntOf(I) + IntOf(m) *
                           (IntOf(ox) * IntOf(ox) + IntOf(oy) * IntOf(oy))
           IN  /\ ret = Add(I, Mul(m, Add(Mul(ox, ox), Mul(oy, oy))))
               /\ I = F(0) => ret = Mul(m, Add(Mul(ox, ox), Mul(oy, oy)))
               /\ (/\ IsInt(I) /\ IsInt(m) /\ IsInt(ox) /\ IsInt(oy)
                   /\ IntOf(I) >= 0
                   /\ exact <= Pow2(MantBits) /\ exact * Unit <= MaxN)
                      => ret = Fin(0, exact * Unit)

C5_Witness ==
    /\ feature = "2d"
    /\ op = "Inertia::shifted"
    /\ arg.self = Inertia(F(1))
    /\ arg.mass = F(1)
    /\ arg.offset = <<F(-1), F(2)>>
    /\ ret = F(6)

\* C9, as stated: the conversion takes an InverseInertia and produces the
\* Inertia that is its inverse.
C9_FromInverseInertia ==
    op = "InverseInertia::from"
        => /\ arg.inertia.type = "InverseInertia"
           /\ ret.type = "Inertia"
           /\ ret = InverseInertia_inverse(arg.inertia)

\* C9, amended: the conversion takes an Inertia and produces the
\* InverseInertia that is its inverse (From<Inertia> for InverseInertia).
C9_FromInertia ==
    op = "InverseInertia::from"
        => /\ arg.inertia.type = "Inertia"
           /\ ret.type = "InverseInertia"
           /\ ret.val = IF feature = "2d" THEN Div(F(1), arg.inertia.val)
                        ELSE Matrix3_inverse(arg.inertia.val)

C9_Witness ==
    /\ op = "InverseInertia::from"
    /\ feature = "2d"
    /\ arg.inertia = Inertia(F(2))
    /\ ret = InverseInertia(Half)

\* A finite Scalar that is not subnormal and not zero.
IsNormal(a) == a.k = "fin" /\ a.n >= Pow2(MantBits - 1)
\* The unit in the last place of a finite Scalar, in units.
Ulp(a) == Pow2(Shift(a.n, 1))
IsPowerOfTwo(a) ==
    a.k = "fin" /\ \E e \in 0..(MantBits + Emax - Emin) : a.n = Pow2(e)
Dist(a, b) == IF Units(a) >= Units(b) THEN Units(a) - Units(b)
              ELSE Units(b) - Units(a)

\* C10, as stated: for every finite scalar inertia I > 0,
\* I.inverse().inverse() equals I.
C10_RoundTripExact ==
    (/\ feature = "2d"
     /\ op = "Inertia::inverse().inverse"
     /\ is_finite(arg.of.val) /\ Gt(arg.of.val, F(0)))
        => ret = arg.of

\* C10, amended: for every finite scalar inertia I > 0 whose reciprocal is a
\* normal number (it neither overflows nor falls in the subnormal range),
\* I.inverse().inverse() is a finite inertia within one unit in the last
\* place of I, and it equals I when I is a power of two.
C10_RoundTripWithinUlp ==
    (/\ feature = "2d"
     /\ op = "Inertia::inverse().inverse"
     /\ is_finite(arg.of.val) /\ Gt(arg.of.val, F(0))
     /\ IsNormal(arg.self.val))
        => /\ ret.type = "Inertia"
           /\ is_finite(ret.val)
           /\ Dist(ret.val, arg.of.val) <= Ulp(arg.of.val)
           /\ IsPowerOfTwo(arg.of.val) => ret = arg.of

C10_Witness ==
    /\ feature = "2d"
    /\ op = "Inertia::inverse().inverse"
    /\ is_finite(arg.of.val) /\ Gt(arg.of.val, F(0))
    /\ IsNormal(arg.self.val)
    /\ ret # arg.of
    /\ Dist(ret.val, arg.of.val) = Ulp(arg.of.val)

----------------------------------------------------------------------------
(* Properties of the collider component (Spec).                            *)

\* C3, as stated: density ZERO through ColliderMassProperties::new yields
\* ColliderMassProperties::ZERO field by field, whatever the shape.
C3_ZeroDensityIsZERO ==
    (op = "ColliderMassProperties::new" /\ arg.density = ColliderDensity_ZERO)
        => /\ ret.mass = ColliderMassProperties_ZERO.mass
           /\ ret.inverse_mass = ColliderMassProperties_ZERO.inverse_mass
           /\ ret.inertia = ColliderMassProperties_ZERO.inertia
           /\ ret.inverse_inertia = ColliderMassProperties_ZERO.inverse_inertia
           /\ ret.center_of_mass = ColliderMassProperties_ZERO.center_of_mass

\* C6, as stated: new takes both inverse quantities from the engine: the
\* inverse mass is the engine's inv_mass and the inverse inertia is the
\* engine's own inverse angular inertia, in both builds.
C6_InversesFromEngine ==
    op = "ColliderMassProperties::new"
        => LET props == Shape_mass_properties(shape_scaled(arg.collider),
                                              arg.density)
           IN  /\ ret.inverse_mass.val = props.inv_mass
               /\ ret.inverse_inertia.val = engine_inverse_inertia(props)

BundleFields ==
    {"mass", "inverse_mass", "inertia", "inverse_inertia", "center_of_mass"}

\* C7: MassPropertiesBundle::new_computed(collider, density) has the five
\* fields of ColliderMassProperties::new(collider, density), each equal.
C7_BundleEqualsSnapshot ==
    op = "MassPropertiesBundle::new_computed"
        => /\ DOMAIN ret = BundleFields
           /\ \A f \in BundleFields :
                 ret[f] = ColliderMassProperties_new(arg.collider, arg.density)[f]

C7_Witness ==
    /\ op = "MassPropertiesBundle::new_computed"
    /\ arg.density = F(1)
    /\ ret.mass = Mass(F(2))
    /\ ret.inverse_mass = InverseMass(Half)
    /\ ret.center_of_mass.val[1] = F(1)

\* Every snapshot the two construction paths can produce.
Constructible ==
    {ColliderMassProperties_ZERO}
    \cup {ColliderMassProperties_new(c, d) : c \in Colliders, d \in Densities}

Accessors ==
    { "ColliderMassProperties::mass", "ColliderMassProperties::inverse_mass",
      "ColliderMassProperties::inertia", "ColliderMassProperties::inverse_inertia",
      "ColliderMassProperties::center_of_mass" }

====
